---- MODULE Spec2Model ----
(***************************************************************************)
(* The ingestion engine of taxdash (src/taxdash/loaders.py): the three     *)
(* loaders load_and_process_data (SPED Contribuicoes),                     *)
(* load_and_process_sped_fiscal (SPED Fiscal) and load_and_process_ecd     *)
(* (ECD), as one state machine over a batch of uploaded files.             *)
(*                                                                         *)
(* A file is a sequence of text lines plus the way its content makes the  *)
(* decoders fail.  A line is abstracted to what the code reads of it: the *)
(* text before the first delimiter (pfx), the record type (field 1), the  *)
(* number of fields, and the fields the header extraction reads at row 0. *)
(***************************************************************************)
EXTENDS Integers, Sequences, FiniteSets, TLC

Nul == "null"                       \* Python None / pandas NaN

(***************************************************************************)
(* Bounds of the model.                                                    *)
(***************************************************************************)
MaxLines == 3        \* lines of the file of a one-file batch
MaxTotal == 2        \* lines of a two-file batch, both files together
MaxEcdLines == 6     \* lines of a file of the ECD marker study (SpecEcd)
MaxChunk == 3        \* stand-in values 1..MaxChunk for config.CHUNK_SIZE
MaxCnpjLines == 4    \* lines of the file of the cnpj study (SpecCnpj)
MaxRuns == 3         \* 'Processar Arquivos' runs of one session (SpecDash)
MaxTierLines == 2    \* lines of a file of the decoder study (SpecTiers)
NormalFields == 12   \* number of fields of a well-formed line
MaxDigits == 8        \* row numbers of the suffix study have up to MaxDigits + 1 digits
WideFields == 43     \* number of fields of a line with extra delimiters

(***************************************************************************)
(* taxdash/config.py                                                       *)
(***************************************************************************)
COLUMN_COUNT_CONTRIB == 40
COLUMN_COUNT_FISCAL == 42
COLUMN_COUNT_ECD == 40

PARENT_REG_CONTRIB ==
  {"0000", "0140", "A100", "C100", "C180", "C190", "C380", "C400", "C500",
   "C600", "C800", "D100", "D500", "F100", "F120", "F130", "F150", "F200",
   "F500", "F600", "F700", "F800", "I100", "M100", "M200", "M300", "M350",
   "M400", "M500", "M600", "M700", "M800", "P100", "P200", "1010", "1020",
   "1050", "1100", "1200", "1300", "1500", "1600", "1700", "1800", "1900"}

PARENT_REG_FISCAL ==
  {"0000",
   "C100", "C300", "C350", "C400", "C495", "C500", "C600", "C700", "C800", "C860",
   "D100", "D300", "D350", "D400", "D500", "D600", "D695", "D700", "D750",
   "E100", "E200", "E300", "E500",
   "G110",
   "H005",
   "K100", "K200", "K210", "K220", "K230", "K250", "K260", "K270", "K280", "K290",
   "K3001100",    \* "K300" "1100": adjacent literals, no comma between them
   "1200", "1300", "1350", "1390", "1400", "1500", "1600", "1601", "1700",
   "18001900",    \* "1800" "1900": adjacent literals, no comma between them
   "1960", "1970", "1980"}

PARENT_REG_ECD ==
  {"0000", "0001", "C001", "C040", "C050", "C150", "C600", "I001", "I010", "I050", "I150"}

Families == {"contrib", "fiscal", "ecd"}

ColumnCount(fam) ==
  CASE fam = "contrib" -> COLUMN_COUNT_CONTRIB
    [] fam = "fiscal" -> COLUMN_COUNT_FISCAL
    [] OTHER -> COLUMN_COUNT_ECD

ParentCodes(fam) ==
  CASE fam = "contrib" -> PARENT_REG_CONTRIB
    [] fam = "fiscal" -> PARENT_REG_FISCAL
    [] OTHER -> PARENT_REG_ECD

\* the record type at which the parsed rows are cut (row-level trim)
RowSentinel(fam) == IF fam = "ecd" THEN "I990" ELSE "9999"

(***************************************************************************)
(* Small helpers.                                                          *)
(***************************************************************************)
MinOf(S) == CHOOSE x \in S : \A y \in S : x <= y
MaxOf(S) == CHOOSE x \in S : \A y \in S : x >= y

\* a reader that never advances
DropNothing(seq, a) == seq

\* seq[a:] of Python, a counted from 0
DropFirst(seq, a) == SubSeq(seq, a + 1, Len(seq))
\* seq[:b] of Python
TakeFirst(seq, b) == SubSeq(seq, 1, b)

\* a concatenation that puts the later frames first
RECURSIVE FlattenReversed(_)
FlattenReversed(ss) == IF ss = <<>> THEN <<>> ELSE FlattenReversed(Tail(ss)) \o Head(ss)

RECURSIVE Flatten(_)
Flatten(ss) == IF ss = <<>> THEN <<>> ELSE Head(ss) \o Flatten(Tail(ss))

(***************************************************************************)
(* Lines of the input alphabet.  DT is a date field DDMMYYYY, character by *)
(* character.                                                              *)
(***************************************************************************)
DT == <<"3", "1", "0", "1", "2", "0", "2", "5">>
NoDate == <<>>                      \* a blank date field (NaN once parsed)

Line(code, nf, pfx, dt, cj) ==
  [code |-> code, nf |-> nf, pfx |-> pfx, dt |-> dt, cj |-> cj, f2 |-> Nul, f4 |-> Nul]

LnHeader == Line("0000", NormalFields, "", DT, "cnpj1")
LnBlankHeader == Line("0000", NormalFields, "", NoDate, Nul)
LnAnchorC == Line("C100", NormalFields, "", NoDate, Nul)
LnDetailC == Line("C170", NormalFields, "", NoDate, Nul)
LnWideC == Line("C170", WideFields, "", NoDate, Nul)
LnEnd == Line("9999", NormalFields, "", NoDate, Nul)
LnWideEnd == Line("9999", WideFields, "", NoDate, Nul)
LnOddEnd == Line("9999", NormalFields, " ", NoDate, Nul)
LnDetailI == Line("I051", NormalFields, "", NoDate, Nul)
LnI200 == Line("I200", NormalFields, "", NoDate, Nul)
LnI350 == Line("I350", NormalFields, "", NoDate, Nul)
LnI990 == Line("I990", NormalFields, "", NoDate, Nul)
\* rows that seed the cnpj column of load_and_process_data
LnC001 == Line("C001", NormalFields, "", NoDate, Nul)
Ln0140 == [Line("0140", NormalFields, "", NoDate, Nul) EXCEPT !.f4 = "cnpj2"]
Ln0140Blank == Line("0140", NormalFields, "", NoDate, Nul)
LnC010 == [Line("C010", NormalFields, "", NoDate, Nul) EXCEPT !.f2 = "cnpj3"]

(***************************************************************************)
(* Reading one file: raw-text pre-scan and decoding.                       *)
(***************************************************************************)
\* line.startswith('|<code>|')
StartsWith(line, code) == line.pfx = "" /\ line.code = code

\* a cut that leaves the |9999| line out
PreScanExclusive(lines) ==
  LET hits == {k \in 1..Len(lines) : StartsWith(lines[k], "9999")}
  IN IF hits = {} THEN lines ELSE TakeFirst(lines, MinOf(hits) - 1)

\* the text is cut after the first line that starts with |9999|
PreScan(lines) ==
  LET hits == {k \in 1..Len(lines) : StartsWith(lines[k], "9999")}
  IN IF hits = {} THEN lines ELSE TakeFirst(lines, MinOf(hits))

\* the whole-file fallback of the ECD loader keeps the lines up to and
\* including the first one that starts with |I990|
TrimLinesAtI990(lines) ==
  LET hits == {k \in 1..Len(lines) : StartsWith(lines[k], "I990")}
  IN IF hits = {} THEN lines ELSE TakeFirst(lines, MinOf(hits))

\* a parsed row: the fields of the line addressed by column, and ln, the
\* number of the line it was read from (kept for the statements only)
Row(line, k) ==
  [ln |-> k, code |-> line.code, dt |-> line.dt, cj |-> line.cj,
   f2 |-> line.f2, f4 |-> line.f4]

\* pd.read_csv(names=column_names, on_bad_lines="skip"): a line with more
\* fields than column names is skipped, every other line is a row
IsBadLine(line, fam) == line.nf > ColumnCount(fam)

RECURSIVE ReadCsvFrom(_, _, _)
ReadCsvFrom(lines, fam, k) ==
  IF k > Len(lines) THEN <<>>
  ELSE (IF IsBadLine(lines[k], fam) THEN <<>> ELSE <<Row(lines[k], k)>>)
       \o ReadCsvFrom(lines, fam, k + 1)

ReadCsv(lines, fam) == ReadCsvFrom(lines, fam, 1)

\* mask.any() and int(np.argmax(mask)) for the mask codes.eq(code)
HasCode(rows, code) == \E k \in 1..Len(rows) : rows[k].code = code
\* the position of the last match instead of the first
LastCode(rows, code) ==
  IF HasCode(rows, code)
  THEN MaxOf({k \in 1..Len(rows) : rows[k].code = code}) - 1
  ELSE 0

FirstCode(rows, code) ==
  IF HasCode(rows, code)
  THEN MinOf({k \in 1..Len(rows) : rows[k].code = code}) - 1
  ELSE 0

\* the parsed rows cut after the first row whose record type is the sentinel
TrimRows(rows, sentinel) ==
  IF rows # <<>> /\ HasCode(rows, sentinel)
  THEN TakeFirst(rows, FirstCode(rows, sentinel) + 1)
  ELSE rows

\* the row-level trim of a loader; load_and_process_sped_fiscal has none
Trimmed(fam, df) == IF fam = "fiscal" THEN df ELSE TrimRows(df, RowSentinel(fam))

(***************************************************************************)
(* The window filter of the ECD loader, one chunk at a time.               *)
(***************************************************************************)
\* a filter that takes an I350 met before any I200 for the end of a window
ChunkStepEndTrims(in_skip, after_resume, chunk) ==
  IF after_resume THEN [keep |-> chunk, in_skip |-> in_skip, after_resume |-> TRUE]
  ELSE IF in_skip \/ (HasCode(chunk, "I350") /\ ~HasCode(chunk, "I200"))
  THEN IF HasCode(chunk, "I350")
       THEN [keep |-> DropFirst(chunk, FirstCode(chunk, "I350")),
             in_skip |-> FALSE, after_resume |-> TRUE]
       ELSE [keep |-> <<>>, in_skip |-> TRUE, after_resume |-> FALSE]
  ELSE IF HasCode(chunk, "I200")
  THEN IF HasCode(chunk, "I350") /\ FirstCode(chunk, "I200") < FirstCode(chunk, "I350")
       THEN [keep |-> TakeFirst(chunk, FirstCode(chunk, "I200"))
                      \o DropFirst(chunk, FirstCode(chunk, "I350")),
             in_skip |-> FALSE, after_resume |-> TRUE]
       ELSE IF HasCode(chunk, "I350")
       THEN [keep |-> chunk, in_skip |-> FALSE, after_resume |-> TRUE]
       ELSE [keep |-> TakeFirst(chunk, FirstCode(chunk, "I200")),
             in_skip |-> TRUE, after_resume |-> FALSE]
  ELSE [keep |-> chunk, in_skip |-> FALSE, after_resume |-> FALSE]

\* a filter that opens a window again at every I200 it meets
ChunkStepReopening(in_skip, after_resume, chunk) ==
  IF HasCode(chunk, "I200") /\ ~in_skip
  THEN [keep |-> TakeFirst(chunk, FirstCode(chunk, "I200")),
        in_skip |-> TRUE, after_resume |-> FALSE]
  ELSE IF HasCode(chunk, "I350")
  THEN [keep |-> DropFirst(chunk, FirstCode(chunk, "I350")),
        in_skip |-> FALSE, after_resume |-> TRUE]
  ELSE [keep |-> IF in_skip THEN <<>> ELSE chunk,
        in_skip |-> in_skip, after_resume |-> after_resume]

\* a filter that does not compare the positions of the two markers of a chunk
ChunkStepOrderBlind(in_skip, after_resume, chunk) ==
  IF after_resume THEN [keep |-> chunk, in_skip |-> in_skip, after_resume |-> TRUE]
  ELSE IF in_skip
  THEN IF HasCode(chunk, "I350")
       THEN [keep |-> DropFirst(chunk, FirstCode(chunk, "I350")),
             in_skip |-> FALSE, after_resume |-> TRUE]
       ELSE [keep |-> <<>>, in_skip |-> TRUE, after_resume |-> FALSE]
  ELSE IF HasCode(chunk, "I350")
  THEN [keep |-> chunk, in_skip |-> FALSE, after_resume |-> TRUE]
  ELSE IF HasCode(chunk, "I200")
  THEN [keep |-> TakeFirst(chunk, FirstCode(chunk, "I200")),
        in_skip |-> TRUE, after_resume |-> FALSE]
  ELSE [keep |-> chunk, in_skip |-> FALSE, after_resume |-> FALSE]

ChunkStep(in_skip, after_resume, chunk) ==
  LET has200 == HasCode(chunk, "I200")
      has350 == HasCode(chunk, "I350")
      first200 == FirstCode(chunk, "I200")
      first350 == FirstCode(chunk, "I350")
      head200 == IF first200 > 0 THEN TakeFirst(chunk, first200) ELSE <<>>
  IN IF ~in_skip /\ ~after_resume
     THEN IF ~has200 /\ ~has350
          THEN [keep |-> chunk, in_skip |-> in_skip, after_resume |-> after_resume]
          ELSE IF has200 /\ ~has350
          THEN [keep |-> head200, in_skip |-> TRUE, after_resume |-> after_resume]
          ELSE IF ~has200 /\ has350
          THEN [keep |-> chunk, in_skip |-> in_skip, after_resume |-> TRUE]
          ELSE IF first200 < first350
          THEN [keep |-> head200 \o DropFirst(chunk, first350),
                in_skip |-> FALSE, after_resume |-> TRUE]
          ELSE [keep |-> chunk, in_skip |-> FALSE, after_resume |-> TRUE]
     ELSE IF in_skip /\ ~after_resume
     THEN IF has350
          THEN [keep |-> DropFirst(chunk, first350),
                in_skip |-> FALSE, after_resume |-> TRUE]
          ELSE [keep |-> <<>>, in_skip |-> in_skip, after_resume |-> after_resume]
     ELSE [keep |-> chunk, in_skip |-> in_skip, after_resume |-> after_resume]

\* the window logic of the whole-file fallback
FallbackWindow(rows) ==
  LET has200 == HasCode(rows, "I200")
      has350 == HasCode(rows, "I350")
      first200 == FirstCode(rows, "I200")
      first350 == FirstCode(rows, "I350")
  IN IF rows = <<>> THEN rows
     ELSE IF has200 /\ ~has350
     THEN IF first200 > 0 THEN TakeFirst(rows, first200) ELSE rows
     ELSE IF has200 /\ has350 /\ first200 < first350
     THEN TakeFirst(rows, first200) \o DropFirst(rows, first350)
     ELSE rows

(***************************************************************************)
(* Header extraction, identifiers and parent linkage of one file.          *)
(***************************************************************************)
IdWidth == 7

\* the date field of row 0 without its first characters: [2:], or [4:] for ECD
HeaderPeriod(fam, rows) ==
  IF rows[1].dt = NoDate THEN NoDate
  ELSE DropFirst(rows[1].dt, IF fam = "ecd" THEN 4 ELSE 2)

HeaderCnpj(rows) == rows[1].cj

\* str(x) of a missing value
PeriodTokenNone(per) == IF per = NoDate THEN <<"N", "o", "n", "e">> ELSE per

\* str(x) if x is not None else "NA"
PeriodToken(per) == IF per = NoDate THEN <<"N", "A">> ELSE per
CnpjToken(cj) == IF cj = Nul THEN "NA" ELSE cj

\* row numbers written from 1
RECURSIVE DigitsFromOne(_)
DigitsFromOne(n) ==
  IF n + 1 < 10 THEN <<n + 1>>
  ELSE DigitsFromOne((n + 1) \div 10 - 1) \o <<(n + 1) % 10>>

RECURSIVE Digits(_)
Digits(n) == IF n < 10 THEN <<n>> ELSE Digits(n \div 10) \o <<n % 10>>

\* str.zfill: zeros on the left up to the width, longer strings unchanged
ZFill(ds, w) == IF Len(ds) >= w THEN ds ELSE [k \in 1..(w - Len(ds)) |-> 0] \o ds

\* the file index left out of the identifier
PrefixFileConstant(i) == 0

PrefixFile(i) == i

\* f"{prefix_file}|{prefix_periodo}|{prefix_cnpj}|" + zfill(row number, 7);
\* no component holds the delimiter, so the string is this tuple
CompositeId(i, per, cj, k) ==
  <<PrefixFile(i), PeriodToken(per), CnpjToken(cj), ZFill(Digits(k), IdWidth)>>

NoId == <<>>                        \* id_pai = None

\* Series.ffill(): every missing value takes the last value before it
RECURSIVE FFillFrom(_, _, _, _)
FFillFrom(vals, missing, last, k) ==
  IF k > Len(vals) THEN <<>>
  ELSE LET v == IF vals[k] = missing THEN last ELSE vals[k]
       IN <<v>> \o FFillFrom(vals, missing, v, k + 1)

\* a fill that keeps the first value it met
FFillFirstWins(vals, missing) ==
  LET seen(k) == {m \in 1..k : vals[m] # missing}
  IN [k \in 1..Len(vals) |->
        IF seen(k) = {} THEN missing ELSE vals[MinOf(seen(k))]]

FFill(vals, missing) == FFillFrom(vals, missing, missing, 1)

\* a fill of id_pai whose accumulator is not reset: it starts with the id of
\* an anchor row 0 of file 0
LinkParentsCarried(pai0) ==
  FFillFrom(pai0, NoId, <<0, <<"N", "A">>, "NA", ZFill(<<0>>, IdWidth)>>, 1)

\* df_temp['id_pai'].ffill() on the frame of one file, whose id_pai column
\* was inserted as None
LinkParents(pai0) == FFill(pai0, NoId)

\* the cnpj column before the forward fill
CnpjSeed(fam, row, cnpj_header) ==
  IF fam = "contrib"
  THEN IF row.code \in {"A010", "C010", "D010", "F010", "I010", "P010"} THEN row.f2
       ELSE IF row.code = "0140" THEN row.f4
       ELSE IF row.code \in {"0000", "C001", "D001", "M001", "1001"} THEN cnpj_header
       ELSE Nul
  ELSE cnpj_header

\* the per-file relation: id, id_pai, periodo, cnpj and the columns kept
BuildRelation(fam, rows, i) ==
  LET per == HeaderPeriod(fam, rows)
      cj == HeaderCnpj(rows)
      n == Len(rows)
      ids == [k \in 1..n |-> CompositeId(i, per, cj, k - 1)]
      pai0 == [k \in 1..n |-> IF rows[k].code \in ParentCodes(fam) THEN ids[k] ELSE NoId]
      pai == LinkParents(pai0)
      cnpj0 == [k \in 1..n |-> CnpjSeed(fam, rows[k], cj)]
      cnpj == FFill(cnpj0, Nul)
  IN [k \in 1..n |->
        [id |-> ids[k], id_pai |-> pai[k], periodo |-> per, cnpj |-> cnpj[k],
         code |-> rows[k].code, ln |-> rows[k].ln]]

\* a deduplication on the id_pai column
DropDuplicatesByParent(df) ==
  LET keep(k) == \A m \in (k + 1)..Len(df) : df[m].id_pai # df[k].id_pai
      F[k \in 0..Len(df)] ==
        IF k = 0 THEN <<>>
        ELSE IF keep(k) THEN Append(F[k - 1], df[k]) ELSE F[k - 1]
  IN F[Len(df)]

\* DataFrame.drop_duplicates(subset=["id"], keep="last")
DropDuplicatesLast(df) ==
  LET keep(k) == \A m \in (k + 1)..Len(df) : df[m].id # df[k].id
      F[k \in 0..Len(df)] ==
        IF k = 0 THEN <<>>
        ELSE IF keep(k) THEN Append(F[k - 1], df[k]) ELSE F[k - 1]
  IN F[Len(df)]

(***************************************************************************)
(* The inputs.  fail tells how the content of a file makes the decoders    *)
(* fail: "ok" none does; "cc" the C engine raises ParserError when the     *)
(* reader is created and the Python engine decodes the file; "ci" the C    *)
(* engine raises while it iterates and the Python engine decodes the file; *)
(* "all" the C engine raises and the Python engine raises while it         *)
(* iterates.                                                               *)
(***************************************************************************)
File(lines, fail) == [lines |-> lines, fail |-> fail]

FailKinds(fam) == IF fam = "ecd" THEN {"ok", "cc", "ci", "all"} ELSE {"ok", "ci", "all"}

Alphabet(fam) ==
  IF fam = "ecd"
  THEN {LnHeader, LnBlankHeader, LnDetailI, LnI200, LnI350, LnI990, LnEnd, LnWideEnd}
  ELSE {LnHeader, LnBlankHeader, LnAnchorC, LnDetailC, LnEnd, LnWideC, LnWideEnd,
        LnOddEnd}

\* an entry of the list that is None instead of a file
NoneEntry == [lines |-> <<>>, fail |-> "none"]

\* only a file with content can make a decoder fail
FailsFor(fam, m) == IF m = 0 THEN {"ok"} ELSE FailKinds(fam)

(***************************************************************************)
(* One file through a loader, as a function of the file: what the loop     *)
(* body computes for a file whose decoding ends without an exception.      *)
(***************************************************************************)
RECURSIVE WindowChunks(_, _, _, _)
WindowChunks(rs, cs, skip, after) ==
  IF rs = <<>> THEN <<>>
  ELSE LET n == IF Len(rs) < cs THEN Len(rs) ELSE cs
           st == ChunkStep(skip, after, TakeFirst(rs, n))
       IN st.keep \o WindowChunks(DropFirst(rs, n), cs, st.in_skip, st.after_resume)

Decoded(fam, file, cs) ==
  IF fam = "ecd"
  THEN IF file.fail = "ci"
       THEN FallbackWindow(ReadCsv(TrimLinesAtI990(file.lines), fam))
       ELSE WindowChunks(ReadCsv(PreScan(file.lines), fam), cs, FALSE, FALSE)
  ELSE ReadCsv(PreScan(file.lines), fam)

PerFileRows(fam, file, cs) == Trimmed(fam, Decoded(fam, file, cs))

PerFile(fam, file, idx, cs) ==
  IF PerFileRows(fam, file, cs) = <<>> THEN <<>>
  ELSE BuildRelation(fam, PerFileRows(fam, file, cs), idx)

\* the entry check of a loader: None or an empty list
NoFileSelectedNoneOnly(none, fs) == none

NoFileSelected(none, fs) == none \/ Len(fs) = 0

\* files = [f for f in files if f is not None], in load_and_process_ecd only
UsableFiles(fam, fs) ==
  IF fam = "ecd" THEN SelectSeq(fs, LAMBDA f : f # NoneEntry) ELSE fs

VARIABLES
  family,        \* which loader runs
  isNone,        \* the loader was handed None
  uploaded_files, \* the list the loader was handed
  files,         \* the list the loop goes through
  chunksize,     \* config.CHUNK_SIZE
  pc,            \* where the loader is
  i,             \* enumerate index of the file being read
  tiers,         \* the decoders attempted for the file being read
  rows,          \* df_temp, or the rows the ECD reader has still to yield
  parts,         \* ECD: the pieces accumulated in the per-file dfs list
  in_skip,       \* ECD window filter
  after_resume,  \* ECD window filter
  dfs,           \* the per-file relations appended so far
  origin,        \* for each entry of dfs, the index of the file it came from
  errors,        \* st.error messages shown
  out,           \* what the call ends with
  row_no,        \* suffix study: two row numbers of np.arange(len(df))
  suffix,        \* suffix study: their zero-filled strings
  session_state, \* dashboard: st.session_state, each result key with the run that stored it
  view,          \* dashboard: what the last script run showed
  run            \* dashboard: 'Processar Arquivos' runs so far

vars == <<family, isNone, uploaded_files, files, chunksize, pc, i, tiers, rows, parts,
          in_skip, after_resume, dfs, origin, errors, out, row_no, suffix,
          session_state, view, run>>

NoOut == [kind |-> "none", what |-> "", df |-> <<>>]
Stopped == [kind |-> "stop", what |-> "st.stop", df |-> <<>>]
Raised(exc) == [kind |-> "raise", what |-> exc, df |-> <<>>]
Returned(df) == [kind |-> "df", what |-> "", df |-> df]

\* st.session_state after the setup of a new session: processing_done False
\* and no result key; 0 stands for a key that is not there
FreshSession ==
  [processing_done |-> FALSE, df_sped_fiscal |-> 0, C100_SF |-> 0, df_ecd |-> 0,
   df_saidas_reforma |-> 0, df |-> 0, empresa |-> 0]

NoView == [area |-> 0, done |-> FALSE, outcome |-> "none", reads |-> {}]

InitWith(fam, batch, none, cs) ==
  /\ family = fam
  /\ isNone = none
  /\ uploaded_files = batch
  /\ files = <<>>
  /\ chunksize = cs
  /\ pc = "start"
  /\ i = 0
  /\ tiers = <<>>
  /\ rows = <<>>
  /\ parts = <<>>
  /\ in_skip = FALSE
  /\ after_resume = FALSE
  /\ dfs = <<>>
  /\ origin = <<>>
  /\ errors = <<>>
  /\ out = NoOut
  /\ row_no = <<>>
  /\ suffix = <<>>
  /\ session_state = FreshSession
  /\ view = NoView
  /\ run = 0

\* a loader is handed None, an empty list, a list of one file of at most
\* MaxLines lines, a list of two files of at most MaxTotal lines together,
\* or a list of a None entry and such a file or None
Init ==
  \E fam \in Families :
    \E cs \in (IF fam = "ecd" THEN 1..MaxChunk ELSE {MaxChunk}) :
      \/ \E none \in BOOLEAN : InitWith(fam, <<>>, none, cs)
      \/ \E m \in 0..MaxLines :
           \E l \in [1..m -> Alphabet(fam)] : \E x \in FailsFor(fam, m) :
             InitWith(fam, <<File(l, x)>>, FALSE, cs)
      \/ \E a \in 0..MaxTotal : \E b \in 0..(MaxTotal - a) :
           \E l \in [1..a -> Alphabet(fam)] : \E x \in FailsFor(fam, a) :
             \E r \in [1..b -> Alphabet(fam)] : \E y \in FailsFor(fam, b) :
               InitWith(fam, <<File(l, x), File(r, y)>>, FALSE, cs)
      \/ \E batch \in {<<NoneEntry>>, <<NoneEntry, NoneEntry>>} :
           InitWith(fam, batch, FALSE, cs)
      \/ \E m \in 0..MaxTotal :
           \E l \in [1..m -> Alphabet(fam)] : \E x \in FailsFor(fam, m) :
             \E batch \in {<<NoneEntry, File(l, x)>>, <<File(l, x), NoneEntry>>} :
               InitWith(fam, batch, FALSE, cs)

CurFile == files[i + 1]

\* a loop that ends at the first file
NextPcBreak(k) == "concat"

\* the loop over the files goes on, or the files are consolidated
NextPc(k) == IF k < Len(files) THEN "read" ELSE "concat"

(***************************************************************************)
(* The entry check: no input is the "no file selected" failure.            *)
(***************************************************************************)
CheckInput ==
  /\ pc = "start"
  /\ IF NoFileSelected(isNone, uploaded_files)
     THEN /\ errors' = Append(errors, "no file selected")
          /\ out' = Stopped
          /\ pc' = "stopped"
          /\ UNCHANGED files
     ELSE /\ files' = UsableFiles(family, uploaded_files)
          /\ IF family = "ecd" /\ UsableFiles(family, uploaded_files) = <<>>
             THEN /\ errors' = Append(errors, "no valid file selected")
                  /\ out' = Stopped
                  /\ pc' = "stopped"
             ELSE \* a loop over no file goes straight to what follows it
                  /\ pc' = IF UsableFiles(family, uploaded_files) = <<>>
                           THEN "concat" ELSE "read"
                  /\ UNCHANGED <<errors, out>>
  /\ UNCHANGED <<session_state, view, run, row_no, suffix, family, isNone, uploaded_files, chunksize, i, tiers, rows,
                 parts, in_skip, after_resume, dfs, origin>>

(***************************************************************************)
(* f.read(), the pre-scan for |9999| and the first decoder (C engine).     *)
(***************************************************************************)
ReadFile ==
  /\ pc = "read"
  /\ tiers' = <<"c">>
  /\ parts' = <<>>
  /\ in_skip' = FALSE
  /\ after_resume' = FALSE
  /\ IF CurFile = NoneEntry
     THEN \* f.seek(0) on None
          /\ pc' = "raised"
          /\ out' = Raised("AttributeError")
          /\ rows' = <<>>
     ELSE /\ UNCHANGED out
          /\ IF family = "ecd"
             THEN IF CurFile.fail \in {"cc", "all"}
                  THEN /\ pc' = "python"
                       /\ rows' = <<>>
                  ELSE /\ pc' = "chunks"
                       /\ rows' = ReadCsv(PreScan(CurFile.lines), family)
             ELSE IF CurFile.fail = "ok"
                  THEN /\ pc' = "finish"
                       /\ rows' = ReadCsv(PreScan(CurFile.lines), family)
                  ELSE /\ pc' = "python"
                       /\ rows' = <<>>
  /\ UNCHANGED <<session_state, view, run, row_no, suffix, family, isNone, uploaded_files, files, chunksize, i, dfs,
                 origin, errors>>

(***************************************************************************)
(* The except branch: the same text again with the Python engine.  In the  *)
(* two SPED loaders nothing catches what it raises.                        *)
(***************************************************************************)
PythonTier ==
  /\ pc = "python"
  /\ tiers' = Append(tiers, "python")
  /\ IF family = "ecd"
     THEN /\ pc' = "chunks"
          /\ rows' = ReadCsv(PreScan(CurFile.lines), family)
          /\ UNCHANGED out
     ELSE IF CurFile.fail = "all"
          THEN /\ pc' = "raised"
               /\ out' = Raised("ParserError")
               /\ UNCHANGED rows
          ELSE /\ pc' = "finish"
               /\ rows' = ReadCsv(PreScan(CurFile.lines), family)
               /\ UNCHANGED out
  /\ UNCHANGED <<session_state, view, run, row_no, suffix, family, isNone, uploaded_files, files, chunksize, i, parts, in_skip,
                 after_resume, dfs, origin, errors>>

(***************************************************************************)
(* ECD: one chunk of the reader through the window filter.                 *)
(***************************************************************************)
EcdChunk ==
  /\ pc = "chunks"
  /\ rows # <<>>
  /\ LET n == IF Len(rows) < chunksize THEN Len(rows) ELSE chunksize
         st == ChunkStep(in_skip, after_resume, TakeFirst(rows, n))
     IN /\ parts' = parts \o st.keep
        /\ in_skip' = st.in_skip
        /\ after_resume' = st.after_resume
        /\ rows' = DropFirst(rows, n)
  /\ UNCHANGED <<session_state, view, run, row_no, suffix, family, isNone, uploaded_files, files, chunksize, pc, i, tiers, dfs, origin,
                 errors, out>>

\* the fallback frame put after what the loop had accumulated
AfterFallbackAppended(acc, df_fallback) == acc \o df_fallback

\* dfs = [df_fallback]: the list of pieces is replaced, not extended
AfterFallback(acc, df_fallback) == df_fallback

(***************************************************************************)
(* ECD: the reader raises in the chunk loop; the whole file is read again  *)
(* with the Python engine and replaces what the loop had accumulated.      *)
(***************************************************************************)
EcdFallback ==
  /\ pc = "chunks"
  /\ CurFile.fail \in {"ci", "all"}
  /\ tiers' = Append(tiers, "whole")
  /\ rows' = <<>>
  /\ IF CurFile.fail = "all"
     THEN /\ pc' = "raised"
          /\ out' = Raised("ParserError")
          /\ UNCHANGED parts
     ELSE /\ pc' = "finish"
          /\ parts' = AfterFallback(parts,
                         FallbackWindow(ReadCsv(TrimLinesAtI990(CurFile.lines), family)))
          /\ UNCHANGED out
  /\ UNCHANGED <<session_state, view, run, row_no, suffix, family, isNone, uploaded_files, files, chunksize, i, in_skip, after_resume,
                 dfs, origin, errors>>

(***************************************************************************)
(* The rest of the loop body: row-level trim, the empty check, header      *)
(* extraction, ids, parent linkage, append to dfs.                         *)
(***************************************************************************)
FileRows == Trimmed(family, IF family = "ecd" THEN parts ELSE rows)

FinishFile ==
  /\ \/ pc = "finish"
     \/ pc = "chunks" /\ rows = <<>> /\ CurFile.fail \in {"ok", "cc"}
  /\ IF FileRows = <<>>
     THEN UNCHANGED <<dfs, origin>>
     ELSE /\ dfs' = Append(dfs, BuildRelation(family, FileRows, i))
          /\ origin' = Append(origin, i)
  /\ i' = i + 1
  /\ pc' = NextPc(i + 1)
  /\ rows' = <<>>
  /\ parts' = <<>>
  /\ tiers' = <<>>
  /\ UNCHANGED <<session_state, view, run, row_no, suffix, family, isNone, uploaded_files, files, chunksize, in_skip, after_resume,
                 errors, out>>

(***************************************************************************)
(* After the loop: concatenation, and what each loader does with nothing.  *)
(***************************************************************************)
Consolidate ==
  /\ pc = "concat"
  /\ IF dfs = <<>>
     THEN IF family = "fiscal"
          THEN \* pd.concat([]) raises ValueError
               /\ pc' = "raised"
               /\ out' = Raised("ValueError")
               /\ UNCHANGED errors
          ELSE /\ pc' = "stopped"
               /\ errors' = Append(errors, "no valid input")
               /\ out' = Stopped
     ELSE /\ pc' = "done"
          /\ out' = Returned(IF family = "fiscal"
                              THEN DropDuplicatesLast(Flatten(dfs))
                              ELSE Flatten(dfs))
          /\ UNCHANGED errors
  /\ UNCHANGED <<session_state, view, run, row_no, suffix, family, isNone, uploaded_files, files, chunksize, i, tiers, rows, parts,
                 in_skip, after_resume, dfs, origin>>

Next ==
  \/ CheckInput
  \/ ReadFile
  \/ PythonTier
  \/ EcdChunk
  \/ EcdFallback
  \/ FinishFile
  \/ Consolidate

Spec == Init /\ [][Next]_vars

\* ECD marker study: one decodable or C-failing ECD file of up to MaxEcdLines
\* lines over the marker alphabet, every chunk size
EcdStudyLines == {LnDetailI, LnI200, LnI350, LnI990}

InitEcd ==
  \E cs \in 1..MaxChunk :
    \E m \in 0..MaxEcdLines :
      \E l \in [1..m -> EcdStudyLines] :
        \E x \in (IF m = 0 THEN {"ok"} ELSE {"ok", "ci"}) :
          InitWith("ecd", <<File(l, x)>>, FALSE, cs)

NextEcd ==
  \/ CheckInput
  \/ ReadFile
  \/ EcdChunk
  \/ EcdFallback
  \/ FinishFile
  \/ Consolidate

SpecEcd == InitEcd /\ [][NextEcd]_vars

\* decoder study: every loader on one or two files of up to MaxTierLines
\* lines each, every way the decoders of a file can fail, the smallest and
\* the largest chunk size
TierStudyLines == {LnHeader, LnEnd}

TierStudyFiles(fam) ==
  UNION {{File(l, x) : l \in [1..m -> TierStudyLines], x \in FailsFor(fam, m)} :
           m \in 0..MaxTierLines}

InitTiers ==
  \E fam \in Families : \E cs \in {1, MaxChunk} :
    \E f \in TierStudyFiles(fam) :
      \/ InitWith(fam, <<f>>, FALSE, cs)
      \/ \E g \in TierStudyFiles(fam) : InitWith(fam, <<f, g>>, FALSE, cs)

SpecTiers == InitTiers /\ [][Next]_vars

\* cnpj study: one decodable Contribuicoes file of up to MaxCnpjLines lines
\* over the rows that seed the cnpj column and a detail row
CnpjStudyLines == {LnHeader, LnBlankHeader, LnC001, Ln0140, Ln0140Blank, LnC010, LnDetailC}

InitCnpj ==
  \E m \in 0..MaxCnpjLines :
    \E l \in [1..m -> CnpjStudyLines] :
      InitWith("contrib", <<File(l, "ok")>>, FALSE, MaxChunk)

NextCnpj ==
  \/ CheckInput
  \/ ReadFile
  \/ FinishFile
  \/ Consolidate

SpecCnpj == InitCnpj /\ [][NextCnpj]_vars

(***************************************************************************)
(* The dashboard: one session of reforma-trib-app-tabs.py.  Every user     *)
(* interaction runs the script once, with the area selected in the         *)
(* sidebar; st.session_state is what one run leaves to the next.  Of the   *)
(* keys a stage stores together one is kept: df_sped_fiscal and C100_SF    *)
(* for the SPED Fiscal stage, df_ecd for the ECD stage, df_saidas_reforma, *)
(* df and empresa for the final block.                                     *)
(***************************************************************************)
ResultKeys == {"df_sped_fiscal", "C100_SF", "df_ecd", "df_saidas_reforma", "df", "empresa"}

\* where a run of the handler ends: at the input checks (st.stop), in the
\* SPED Fiscal stage, in the Contribuicoes stage or in the ECD stage (the
\* loader stops the script or raises), or at the end of the handler
StopPoints == {"check", "fiscal", "contrib", "ecd", "none"}

\* session state after run n of the handler, which ends at stop; ecd tells
\* whether an ECD file was selected
AfterRun(ss, n, stop, ecd) ==
  LET s1 == IF stop \in {"check", "fiscal"} THEN ss
            ELSE [ss EXCEPT !.df_sped_fiscal = n, !.C100_SF = n]
      s2 == IF stop = "none" /\ ecd THEN [s1 EXCEPT !.df_ecd = n] ELSE s1
  IN IF stop = "none"
     THEN [s2 EXCEPT !.df_saidas_reforma = n, !.processing_done = TRUE,
                     !.df = n, !.empresa = n, !.df_sped_fiscal = n]
     ELSE s2

\* the button of Area 1
ProcessarArquivos ==
  /\ run < MaxRuns
  /\ \E stop \in StopPoints : \E ecd \in BOOLEAN :
       /\ stop = "ecd" => ecd
       /\ session_state' = AfterRun(session_state, run + 1, stop, ecd)
       /\ view' = [area |-> 1, done |-> session_state.processing_done,
                   outcome |-> IF stop = "none" THEN "shown" ELSE "stopped",
                   reads |-> {}]
  /\ run' = run + 1
  /\ UNCHANGED <<family, isNone, uploaded_files, files, chunksize, pc, i, tiers, rows, parts,
                 in_skip, after_resume, dfs, origin, errors, out, row_no, suffix>>

\* the areas whose first tab checks processing_done before anything is read
Guarded(a) == a \in {2, 3, 4}

\* the keys an area reads first, in the order of the script
AreaKeys(a) ==
  IF a = 2 THEN <<"df", "empresa">>
  ELSE IF a \in {3, 4} THEN <<"empresa">>
  ELSE <<"empresa", "df_ecd", "df_sped_fiscal", "df_saidas_reforma", "C100_SF">>

\* st.session_state[key] for each key in turn: KeyError at the first one missing
ReadKeys(ss, keys) ==
  LET missing == {k \in 1..Len(keys) : ss[keys[k]] = 0}
      upto == IF missing = {} THEN Len(keys) ELSE MinOf(missing) - 1
  IN [outcome |-> IF missing = {} THEN "shown" ELSE "KeyError",
      reads |-> {keys[k] : k \in 1..upto}]

\* one run of the script with a results area selected
AreaView(a, ss) ==
  IF Guarded(a) /\ ~ss.processing_done
  THEN [area |-> a, done |-> FALSE, outcome |-> "warning", reads |-> {}]
  ELSE [area |-> a, done |-> ss.processing_done,
        outcome |-> ReadKeys(ss, AreaKeys(a)).outcome,
        reads |-> ReadKeys(ss, AreaKeys(a)).reads]

ViewArea ==
  /\ \E a \in 2..5 : view' = AreaView(a, session_state)
  /\ UNCHANGED <<session_state, run>>
  /\ UNCHANGED <<family, isNone, uploaded_files, files, chunksize, pc, i, tiers, rows, parts,
                 in_skip, after_resume, dfs, origin, errors, out, row_no, suffix>>

InitDash == InitWith("contrib", <<>>, FALSE, MaxChunk)

NextDash ==
  \/ ProcessarArquivos
  \/ ViewArea

SpecDash == InitDash /\ [][NextDash]_vars

(***************************************************************************)
(* The row-sequence suffix on its own: two rows of one file, with row       *)
(* numbers up to MaxDigits + 1 digits, through the zero fill.               *)
(***************************************************************************)
RECURSIVE Pow10(_)
Pow10(e) == IF e = 0 THEN 1 ELSE 10 * Pow10(e - 1)

\* the row numbers around every power of ten
RowNumbers == {0} \cup UNION {{Pow10(e) - 1, Pow10(e), Pow10(e) + 1} : e \in 1..MaxDigits}

InitId ==
  /\ family \in Families
  /\ isNone = FALSE
  /\ uploaded_files = <<>>
  /\ files = <<>>
  /\ chunksize = MaxChunk
  /\ pc = "ids"
  /\ i = 0
  /\ tiers = <<>>
  /\ rows = <<>>
  /\ parts = <<>>
  /\ in_skip = FALSE
  /\ after_resume = FALSE
  /\ dfs = <<>>
  /\ origin = <<>>
  /\ errors = <<>>
  /\ out = NoOut
  /\ row_no \in {p \in RowNumbers \X RowNumbers : p[1] < p[2]}
  /\ suffix = <<>>
  /\ session_state = FreshSession
  /\ view = NoView
  /\ run = 0

\* np.char.zfill(np.arange(len(df)).astype(str), 7) at the two rows
RowSuffixes ==
  /\ pc = "ids"
  /\ suffix' = <<ZFill(Digits(row_no[1]), IdWidth), ZFill(Digits(row_no[2]), IdWidth)>>
  /\ pc' = "ids done"
  /\ UNCHANGED <<session_state, view, run, row_no, family, isNone, uploaded_files, files, chunksize, i,
                 tiers, rows, parts, in_skip, after_resume, dfs, origin, errors,
                 out>>

SpecId == InitId /\ [][RowSuffixes]_vars

(***************************************************************************)
(* Vocabulary of the statements.                                           *)
(***************************************************************************)
Terminal == pc \in {"done", "stopped", "raised"}

\* the per-file relation of the already processed file number f (from 0);
\* empty when the file was skipped
RelOf(f) ==
  IF \E j \in 1..Len(origin) : origin[j] = f
  THEN dfs[CHOOSE j \in 1..Len(origin) : origin[j] = f]
  ELSE <<>>

IsAnchor(row) == row.code \in ParentCodes(family)

(***************************************************************************)
(* C1. No two rows of the relation a loader returns have the same id, also *)
(* when two files of the batch carry the same taxpayer id and period.      *)
(***************************************************************************)
C1_UniqueIds ==
  out.kind = "df" =>
    \A a, b \in 1..Len(out.df) : a # b => out.df[a].id # out.df[b].id

\* two files with the same header both contributed rows to the result
C1_Witness ==
  /\ out.kind = "df"
  /\ Len(files) = 2
  /\ Len(dfs) = 2
  /\ files[1].lines[1] = LnHeader
  /\ files[2].lines[1] = LnHeader
  /\ \E a, b \in 1..Len(out.df) :
       /\ a # b
       /\ out.df[a].id[2] = out.df[b].id[2]
       /\ out.df[a].id[3] = out.df[b].id[3]
       /\ out.df[a].id[4] = out.df[b].id[4]

Lines(f) == files[f + 1].lines

\* the lines of file f that start with |code|
LinesStarting(f, code) == {k \in 1..Len(Lines(f)) : StartsWith(Lines(f)[k], code)}

\* the well-formed lines of file f whose record type is code
RowsOfType(f, code) ==
  {k \in 1..Len(Lines(f)) :
     ~IsBadLine(Lines(f)[k], family) /\ Lines(f)[k].code = code}

LastLn(rel) == rel[Len(rel)].ln

LoadOne(fam, file, cs) ==
  IF fam = "fiscal" THEN DropDuplicatesLast(PerFile(fam, file, 0, cs))
  ELSE PerFile(fam, file, 0, cs)

\* the rows of rel with n as the file index of id and id_pai
WithFileIndex(rel, n) ==
  [k \in 1..Len(rel) |->
     [rel[k] EXCEPT !.id = [@ EXCEPT ![1] = n],
                    !.id_pai = IF @ = NoId THEN NoId ELSE [@ EXCEPT ![1] = n]]]

TwiceTheSameFile == Len(files) = 2 /\ files[1] = files[2]

LoopEnded == pc = "chunks" /\ rows = <<>> /\ CurFile.fail = "ok"

\* the rows the loop was given
Parsed == ReadCsv(PreScan(CurFile.lines), family)

Positions(rs, code) == {k \in 1..Len(rs) : rs[k].code = code}

\* C5 as claimed: with one I200, two rows and then the one I350, the two
\* rows are removed and every other row is retained, for every chunk size
C5_OnlyInnerRowsRemoved ==
  (/\ LoopEnded
   /\ Cardinality(Positions(Parsed, "I200")) = 1
   /\ Cardinality(Positions(Parsed, "I350")) = 1
   /\ MinOf(Positions(Parsed, "I350")) = MinOf(Positions(Parsed, "I200")) + 3)
  => parts = TakeFirst(Parsed, MinOf(Positions(Parsed, "I200")))
             \o DropFirst(Parsed, MinOf(Positions(Parsed, "I350")) - 1)

\* C5 as amended: when the first marker of the file is an I200 and an I350
\* follows it, the I200 row and the rows between it and the first I350
\* after it are removed and every other row (the I350 row too) is retained,
\* for every chunk size
C5_WindowRemoved ==
  LET s == MinOf(Positions(Parsed, "I200"))
      after == {e \in Positions(Parsed, "I350") : e > s}
  IN (/\ LoopEnded
      /\ Positions(Parsed, "I200") # {}
      /\ \A e \in Positions(Parsed, "I350") : e > s
      /\ after # {})
     => parts = TakeFirst(Parsed, s - 1) \o DropFirst(Parsed, MinOf(after) - 1)

\* [a, I200, x, y, I350, b] in chunks of two: [a, I350, b] is kept
C5_Witness ==
  /\ LoopEnded
  /\ chunksize = 2
  /\ Len(Parsed) = 6
  /\ Positions(Parsed, "I200") = {2}
  /\ Positions(Parsed, "I350") = {5}
  /\ Len(parts) = 3
  /\ parts[1].ln = 1 /\ parts[2].ln = 5 /\ parts[3].ln = 6

(***************************************************************************)
(* C6. An ECD file with an I200 row and no I350 row: the output holds no   *)
(* row from the I200 row to the end of the file.                           *)
(***************************************************************************)
C6_NothingFromStartOn ==
  \A f \in 0..(i - 1) :
    (family = "ecd" /\ RowsOfType(f, "I200") # {} /\ RowsOfType(f, "I350") = {})
    => \A k \in 1..Len(RelOf(f)) : RelOf(f)[k].ln < MinOf(RowsOfType(f, "I200"))

(***************************************************************************)
(* C7. A non-empty batch whose files all yield zero rows ends in the       *)
(* "no valid input" failure: the message, then stop.                       *)
(***************************************************************************)
C7_AllEmptyIsNoValidInput ==
  (Terminal /\ ~isNone /\ Len(files) > 0 /\ i = Len(files) /\ dfs = <<>>)
  => (out.kind = "stop" /\ errors = <<"no valid input">>)

\* every entry of the batch is a file and none makes both decoders fail
Decodable == \A k \in 1..Len(files) : files[k].fail \notin {"all", "none"}

(***************************************************************************)
(* C8. When no decoding fails for good and at least one file yields rows,  *)
(* the files that yield no rows are skipped without an error and the       *)
(* loader returns the rows of the files that yielded rows, in order.       *)
(***************************************************************************)
C8_EmptyFilesSkipped ==
  (/\ Terminal
   /\ Decodable
   /\ \E k \in 1..Len(files) : PerFileRows(family, files[k], chunksize) # <<>>)
  => /\ out.kind = "df"
     /\ errors = <<>>
     /\ out.df = Flatten([k \in 1..Len(files) |->
                            PerFile(family, files[k], k - 1, chunksize)])

\* the first file of two yielded nothing and the second one's rows are
\* returned
C8_Witness ==
  /\ pc = "done"
  /\ Len(files) = 2
  /\ origin = <<1>>
  /\ out.df = dfs[1]
  /\ out.df # <<>>

RemoveAt(seq, k) == SubSeq(seq, 1, k - 1) \o SubSeq(seq, k + 1, Len(seq))

\* a header row first, the only |9999| line last, every line well-formed
ValidLines(ls) ==
  /\ Len(ls) >= 2
  /\ ls[1].code = "0000"
  /\ \A k \in 1..Len(ls) :
       /\ ~IsBadLine(ls[k], family)
       /\ ls[k].pfx = ""
       /\ (ls[k].code = "9999") <=> (k = Len(ls))

IdsOf(rel) ==
  [k \in 1..Len(rel) |-> [id |-> rel[k].id, id_pai |-> rel[k].id_pai, code |-> rel[k].code]]

(***************************************************************************)
(* C9. A line with too many fields injected into an otherwise valid file   *)
(* changes nothing in the output of the file.                              *)
(***************************************************************************)
C9_InjectedRowChangesNothing ==
  \A f \in 0..(i - 1) :
    \A k \in 1..Len(Lines(f)) :
      (/\ files[f + 1].fail = "ok"
       /\ IsBadLine(Lines(f)[k], family)
       /\ ValidLines(RemoveAt(Lines(f), k)))
      => IdsOf(RelOf(f)) =
           IdsOf(PerFile(family, File(RemoveAt(Lines(f), k), "ok"), f, chunksize))

(***************************************************************************)
(* C10. A file that no decoder can read is skipped, nothing propagates out *)
(* of the loader, and the relation of the other files is returned.         *)
(***************************************************************************)
C10_UnreadableFileSkipped ==
  (/\ Terminal
   /\ \E k \in 1..Len(files) : files[k].fail = "all"
   /\ \E k \in 1..Len(files) :
        files[k].fail # "all" /\ PerFileRows(family, files[k], chunksize) # <<>>)
  => /\ out.kind = "df"
     /\ out.df = Flatten([k \in 1..Len(files) |->
                            IF files[k].fail = "all" THEN <<>>
                            ELSE PerFile(family, files[k], k - 1, chunksize)])

\* the loader was handed nothing to read: None, an empty list or, for the ECD
\* loader, a list of None entries only
NoInput ==
  \/ isNone
  \/ uploaded_files = <<>>
  \/ family = "ecd" /\ \A k \in 1..Len(uploaded_files) : uploaded_files[k] = NoneEntry

NoFileMessages == {"no file selected", "no valid file selected"}

(***************************************************************************)
(* C11. Called with no input a loader shows the "no file selected" message *)
(* and stops before it reads any stream; a list that holds a file passes   *)
(* the check and shows no such message.                                    *)
(***************************************************************************)
C11_NoInputStops ==
  pc # "start" =>
    IF NoInput
    THEN /\ pc = "stopped"
         /\ out = Stopped
         /\ Len(errors) = 1 /\ errors[1] \in NoFileMessages
         /\ tiers = <<>> /\ i = 0 /\ dfs = <<>>
    ELSE \A k \in 1..Len(errors) : errors[k] \notin NoFileMessages

\* the ECD loader stopped on a list of None entries
C11_Witness ==
  /\ family = "ecd"
  /\ uploaded_files = <<NoneEntry, NoneEntry>>
  /\ pc = "stopped"
  /\ errors = <<"no valid file selected">>

\* the line of the file from which row k of the per-file relation j was read
LineOf(j, k) == files[origin[j] + 1].lines[dfs[j][k].ln]

IsDigits(ds) == Len(ds) >= 1 /\ \A m \in 1..Len(ds) : ds[m] \in 0..9

(***************************************************************************)
(* C12. In a file whose first row is its 0000 row every id has the four    *)
(* components file index, period, taxpayer id, row sequence; the period is *)
(* the header date without its leading characters and the taxpayer id the  *)
(* header's, and a blank header field gives the token NA, no exception.    *)
(***************************************************************************)
C12_IdForm ==
  \A j \in 1..Len(dfs) :
    dfs[j][1].code = "0000" =>
      \A k \in 1..Len(dfs[j]) :
        LET id == dfs[j][k].id
            h == LineOf(j, 1)
        IN /\ Len(id) = 4
           /\ id[1] \in Nat
           /\ id[2] = IF h.dt = NoDate THEN <<"N", "A">>
                      ELSE DropFirst(h.dt, IF family = "ecd" THEN 4 ELSE 2)
           /\ id[3] = IF h.cj = Nul THEN "NA" ELSE h.cj
           /\ IsDigits(id[4])

\* a batch of a file with a blank header and a file with a full one
C12_Witness ==
  /\ pc = "done"
  /\ Len(dfs) = 2
  /\ LineOf(1, 1) = LnBlankHeader
  /\ dfs[1][1].id[2] = <<"N", "A">> /\ dfs[1][1].id[3] = "NA"
  /\ LineOf(2, 1) = LnHeader
  /\ dfs[2][1].id[2] # <<"N", "A">> /\ dfs[2][1].id[3] = "cnpj1"

\* the order of Python strings, on strings of digits
RECURSIVE LexLess(_, _)
LexLess(a, b) ==
  IF b = <<>> THEN FALSE
  ELSE IF a = <<>> THEN TRUE
  ELSE IF Head(a) # Head(b) THEN Head(a) < Head(b)
  ELSE LexLess(Tail(a), Tail(b))

(***************************************************************************)
(* C13. The row-sequence suffix of an id is exactly 7 digits wide and, for *)
(* two rows of one file, the earlier row has the lexicographically smaller *)
(* suffix (the ids of one file differ in the suffix only), for every       *)
(* number of rows.                                                         *)
(***************************************************************************)
C13_SuffixOrder ==
  pc = "ids done" =>
    /\ Len(suffix[1]) = IdWidth
    /\ Len(suffix[2]) = IdWidth
    /\ LexLess(suffix[1], suffix[2])

\* the number of rows of the per-file relations before the j-th
RECURSIVE Offset(_)
Offset(j) == IF j <= 1 THEN 0 ELSE Offset(j - 1) + Len(dfs[j - 1])

(***************************************************************************)
(* C14. The returned relation is the per-file relations one after the      *)
(* other in the order of the files in the list, and the rows of each file  *)
(* are in the order of the file's lines.                                   *)
(***************************************************************************)
C14_OrderPreserved ==
  pc = "done" =>
    /\ Len(out.df) = Offset(Len(dfs) + 1)
    /\ \A j \in 1..Len(dfs) : \A k \in 1..Len(dfs[j]) :
         out.df[Offset(j) + k] = dfs[j][k]
    /\ \A j \in 1..(Len(dfs) - 1) : origin[j] < origin[j + 1]
    /\ \A j \in 1..Len(dfs) : \A k \in 1..(Len(dfs[j]) - 1) :
         dfs[j][k].ln < dfs[j][k + 1].ln

\* two files gave rows and the row of the first file comes first
C14_Witness ==
  /\ pc = "done"
  /\ origin = <<0, 1>>
  /\ Len(out.df) = 2
  /\ out.df[1] = dfs[1][1]
  /\ out.df[2] = dfs[2][1]
  /\ out.df[1] # out.df[2]

\* the zero-based position, in the list the loader was handed, of the n-th
\* (from 0) entry the loop goes through
CallerPos(n) ==
  LET kept == {k \in 1..Len(uploaded_files) :
                 family = "ecd" => uploaded_files[k] # NoneEntry}
      upto(k) == Cardinality({m \in kept : m <= k})
  IN (CHOOSE k \in kept : upto(k) = n + 1) - 1

(***************************************************************************)
(* C15. The file-index component of every id of a file is the zero-based   *)
(* position of the file in the list the loader was handed, whatever        *)
(* entries of the list were skipped.                                       *)
(***************************************************************************)
C15_FileIndexIsPosition ==
  \A j \in 1..Len(dfs) : \A k \in 1..Len(dfs[j]) :
    dfs[j][k].id[1] = CallerPos(origin[j])

HeaderRows(j) == {k \in 1..Len(dfs[j]) : dfs[j][k].code = "0000"}

(***************************************************************************)
(* C17. The period and the taxpayer id in the ids and in the metadata      *)
(* columns of a file are those of the first 0000 row of the file, also     *)
(* when that row is not the first surviving row.                           *)
(***************************************************************************)
C17_HeaderFromFirstAnchor ==
  \A j \in 1..Len(dfs) :
    HeaderRows(j) # {} =>
      LET h == LineOf(j, MinOf(HeaderRows(j)))
          per == IF h.dt = NoDate THEN NoDate
                 ELSE DropFirst(h.dt, IF family = "ecd" THEN 4 ELSE 2)
      IN \A k \in 1..Len(dfs[j]) :
           /\ dfs[j][k].periodo = per
           /\ dfs[j][k].id[2] = (IF per = NoDate THEN <<"N", "A">> ELSE per)
           /\ dfs[j][k].id[3] = (IF h.cj = Nul THEN "NA" ELSE h.cj)

C19_AbortedPassDiscarded ==
  /\ \A j \in 1..Len(dfs) :
       (family = "ecd" /\ files[origin[j] + 1].fail = "ci") =>
         /\ \A k \in 1..(Len(dfs[j]) - 1) : dfs[j][k].ln < dfs[j][k + 1].ln
         /\ \A k \in 1..Len(dfs[j]) : Len(dfs[j][k].id) = 4
         /\ dfs[j] = BuildRelation("ecd",
                        TrimRows(FallbackWindow(ReadCsv(
                          TrimLinesAtI990(files[origin[j] + 1].lines), "ecd")), "I990"),
                        origin[j])
  /\ (pc = "done" /\ family = "ecd") =>
       /\ Len(out.df) = Offset(Len(dfs) + 1)
       /\ \A p \in 1..Len(out.df) : Len(out.df[p].id) = 4

\* the chunk loop had kept the chunk of the I350 row when the reader
\* failed, and the file's relation holds each of its two lines once
C19_Witness ==
  /\ pc = "done"
  /\ family = "ecd"
  /\ files[1].fail = "ci"
  /\ files[1].lines = <<LnI350, LnDetailI>>
  /\ chunksize = 1
  /\ after_resume
  /\ Len(out.df) = 2
  /\ out.df[1].ln = 1 /\ out.df[2].ln = 2

NextChunk == TakeFirst(rows, IF Len(rows) < chunksize THEN Len(rows) ELSE chunksize)

(***************************************************************************)
(* C21. While the chunks of an ECD file go through the window filter,      *)
(* in_skip and after_resume are never both true, the filter never goes     *)
(* back (from inside the window to before it, or out of the state after    *)
(* the window), and after the window every chunk is kept whole.            *)
(***************************************************************************)
C21_WindowOnlyForward ==
  [][(pc = "chunks" /\ pc' = "chunks") =>
       /\ ~(in_skip /\ after_resume)
       /\ ~(in_skip' /\ after_resume')
       /\ in_skip => (in_skip' \/ after_resume')
       /\ after_resume =>
            /\ after_resume' /\ ~in_skip'
            /\ parts' = parts \o NextChunk]_vars

\* [I200, I350, I200, x] one row at a time: the window closed at the I350
\* row and the later I200 row and x were kept
C21_Witness ==
  /\ pc = "chunks"
  /\ chunksize = 1
  /\ CurFile.lines = <<LnI200, LnI350, LnI200, LnDetailI>>
  /\ CurFile.fail = "ok"
  /\ rows = <<>>
  /\ after_resume /\ ~in_skip
  /\ Len(parts) = 3
  /\ parts[1].ln = 2 /\ parts[2].ln = 3 /\ parts[3].ln = 4

(***************************************************************************)
(* C22. When the first marker row of an ECD file is an I200, the chunked   *)
(* pass keeps exactly the rows strictly before the first I200 and the rows *)
(* from the first I350 after it onward: the I200 row is dropped, the I350  *)
(* row is kept, and without an I350 nothing from the I200 row on is kept.  *)
(***************************************************************************)
C22_WindowBounds ==
  LET s == MinOf(Positions(Parsed, "I200"))
      ends == {e \in Positions(Parsed, "I350") : e > s}
  IN (/\ LoopEnded
      /\ Positions(Parsed, "I200") # {}
      /\ \A e \in Positions(Parsed, "I350") : e > s)
     => /\ \A k \in 1..Len(parts) :
             \/ parts[k].ln < Parsed[s].ln
             \/ ends # {} /\ parts[k].ln >= Parsed[MinOf(ends)].ln
        /\ \A m \in 1..Len(Parsed) :
             (m < s \/ (ends # {} /\ m >= MinOf(ends)))
             => \E k \in 1..Len(parts) : parts[k] = Parsed[m]
        /\ \A k \in 1..Len(parts) : parts[k].code = "I200" => ends # {}

\* [a, I200, x | I350, I200, b] in chunks of three: a and the rows from the
\* I350 row on are kept, the second I200 row among them
C22_Witness ==
  /\ LoopEnded
  /\ chunksize = 3
  /\ CurFile.lines = <<LnDetailI, LnI200, LnDetailI, LnI350, LnI200, LnDetailI>>
  /\ Len(parts) = 4
  /\ parts[1].ln = 1 /\ parts[2].ln = 4 /\ parts[3].ln = 5 /\ parts[4].ln = 6

\* the chunk a row of the file falls in, counted from 0
ChunkOf(m) == (m - 1) \div chunksize

\* the first chunk that holds a marker row
FirstMarkerChunk ==
  MinOf({ChunkOf(m) : m \in Positions(Parsed, "I200") \cup Positions(Parsed, "I350")})

(***************************************************************************)
(* C23. When the first chunk of an ECD file that holds a marker row holds  *)
(* an I350 and no I200, the chunked pass ends after the window with every  *)
(* row of the file kept, in order, later I200 ... I350 runs included.      *)
(***************************************************************************)
C23_EndFirstKeepsAll ==
  (/\ LoopEnded
   /\ Positions(Parsed, "I350") # {}
   /\ \E m \in Positions(Parsed, "I350") : ChunkOf(m) = FirstMarkerChunk
   /\ \A m \in Positions(Parsed, "I200") : ChunkOf(m) # FirstMarkerChunk)
  => /\ parts = Parsed
     /\ after_resume /\ ~in_skip

\* [a, I350 | I200, x | I350, b] in chunks of two: all six rows kept
C23_Witness ==
  /\ LoopEnded
  /\ chunksize = 2
  /\ CurFile.lines = <<LnDetailI, LnI350, LnI200, LnDetailI, LnI350, LnDetailI>>
  /\ Len(parts) = 6
  /\ after_resume /\ ~in_skip

(***************************************************************************)
(* C24. A chunk met before the window that holds both an I200 and an I350  *)
(* row: when its first I200 precedes its first I350, the rows before that  *)
(* I200 and the rows from that I350 on are kept; otherwise the whole chunk *)
(* is kept. Either way the filter is after the window from then on.        *)
(***************************************************************************)
C24_BothMarkersInOneChunk ==
  [][(/\ pc = "chunks" /\ pc' = "chunks" /\ rows' # rows
      /\ ~in_skip /\ ~after_resume
      /\ Positions(NextChunk, "I200") # {}
      /\ Positions(NextChunk, "I350") # {})
     => LET p200 == MinOf(Positions(NextChunk, "I200"))
            p350 == MinOf(Positions(NextChunk, "I350"))
        IN /\ after_resume' /\ ~in_skip'
           /\ parts' = parts \o (IF p200 < p350
                                   THEN TakeFirst(NextChunk, p200 - 1)
                                        \o DropFirst(NextChunk, p350 - 1)
                                   ELSE NextChunk)]_vars

\* [a, I200, I350] in one chunk: a and the I350 row are kept
C24_Witness ==
  /\ LoopEnded
  /\ chunksize = 3
  /\ CurFile.lines = <<LnDetailI, LnI200, LnI350>>
  /\ after_resume /\ ~in_skip
  /\ Len(parts) = 2
  /\ parts[1].ln = 1 /\ parts[2].ln = 3

(***************************************************************************)
(* C25. At the end of the chunked pass over an ECD file, the rows kept are *)
(* the rows the whole-file fallback keeps of the same parsed rows, for     *)
(* every arrangement of I200 and I350 rows and every chunk size.           *)
(***************************************************************************)
C25_FallbackKeepsSameRows ==
  LoopEnded => parts = FallbackWindow(Parsed)

\* the same, leaving out the files whose first row is an I200 and that hold no I350
C25_SameRowsOtherwise ==
  (LoopEnded /\ ~(Parsed # <<>> /\ Parsed[1].code = "I200" /\ Positions(Parsed, "I350") = {}))
  => parts = FallbackWindow(Parsed)

\* the order of the decoding strategies
TierRank(t) == IF t = "c" THEN 1 ELSE IF t = "python" THEN 2 ELSE 3

\* the attempts made on the current file are in that order, none twice
TiersInOrder ==
  \A a, b \in 1..Len(tiers) : a < b => TierRank(tiers[a]) < TierRank(tiers[b])

\* steps a file can still need, counted generously
RECURSIVE Rest(_, _)
Rest(fs, k) == IF k > Len(fs) THEN 0 ELSE Len(fs[k].lines) + 5 + Rest(fs, k + 1)

\* a natural number that bounds the steps left in the call
Measure ==
  IF pc \in {"done", "stopped", "raised"} THEN 0
  ELSE IF pc = "concat" THEN 1
  ELSE IF pc = "start" THEN 3 + Rest(uploaded_files, 1)
  ELSE 2 + Rest(files, i + 2)
         + (IF pc = "read" THEN Len(CurFile.lines) + 4
            ELSE IF pc = "python" THEN Len(CurFile.lines) + 3
            ELSE IF pc = "chunks" THEN Len(rows) + 2
            ELSE 1)

(***************************************************************************)
(* C26. Every step of a loader lowers a natural-number measure of the work *)
(* left, so the parsing of every file ends, and the decoding strategies    *)
(* tried on one file are tried in the order C decoder, Python decoder,     *)
(* raw-text trim and re-decode, none of them twice.                        *)
(***************************************************************************)
C26_TiersOnceInOrder ==
  [][/\ Measure' < Measure
     /\ Measure' >= 0
     /\ TiersInOrder'
     /\ (pc' \notin {"done", "stopped", "raised"}) => (ENABLED Next)']_vars

\* an ECD file on which the three strategies were tried, the last one failing
C26_Witness ==
  /\ pc = "raised"
  /\ family = "ecd"
  /\ tiers = <<"c", "python", "whole">>

\* the number a string of digits writes
RECURSIVE Value(_)
Value(ds) ==
  IF ds = <<>> THEN 0 ELSE 10 * Value(SubSeq(ds, 1, Len(ds) - 1)) + ds[Len(ds)]

\* the rows of a relation that carry file index f, in the order of the relation
RECURSIVE RowsOfFile(_, _)
RowsOfFile(df, f) ==
  IF df = <<>> THEN <<>>
  ELSE (IF Head(df).id[1] = f THEN <<Head(df)>> ELSE <<>>) \o RowsOfFile(Tail(df), f)

(***************************************************************************)
(* C27. In every per-file relation, and for every file in the relation a   *)
(* loader returns, the row-sequence number of the k-th row, k counted from *)
(* 0 after bad lines, the sentinel trim and the ECD window, is k.          *)
(***************************************************************************)
C27_RowNumbersAreDense ==
  /\ \A j \in 1..Len(dfs) : \A k \in 1..Len(dfs[j]) :
        Value(dfs[j][k].id[4]) = k - 1
  /\ out.kind = "df" =>
        \A f \in 0..Len(uploaded_files) :
          LET rs == RowsOfFile(out.df, f)
          IN \A k \in 1..Len(rs) : Value(rs[k].id[4]) = k - 1

\* a file whose second line was dropped as malformed: the third line is row 1
C27_Witness ==
  /\ pc = "done"
  /\ out.kind = "df"
  /\ Len(out.df) = 2
  /\ out.df[2].ln = 3
  /\ Value(out.df[2].id[4]) = 1

\* the value row m of the per-file relation j puts in the cnpj column, if any
SeedOf(j, m) ==
  LET c == dfs[j][m].code
  IN IF c \in {"A010", "C010", "D010", "F010", "I010", "P010"} THEN LineOf(j, m).f2
     ELSE IF c = "0140" THEN LineOf(j, m).f4
     ELSE IF c \in {"0000", "C001", "D001", "M001", "1001"} THEN LineOf(j, 1).cj
     ELSE Nul

\* the rows at or before row k that put a value there
SeedsUpTo(j, k) == {m \in 1..k : SeedOf(j, m) # Nul}

(***************************************************************************)
(* C28. In load_and_process_data the cnpj of a row is the value put there  *)
(* by the nearest row at or before it that put a non-null value: the       *)
(* header taxpayer id for 0000/C001/D001/M001/1001 rows, field 4 for 0140  *)
(* rows, field 2 for A010/C010/D010/F010/I010/P010 rows. It is null only   *)
(* when no row at or before it put a value.                                *)
(***************************************************************************)
C28_CnpjIsLastSeed ==
  family = "contrib" =>
    \A j \in 1..Len(dfs) : \A k \in 1..Len(dfs[j]) :
      dfs[j][k].cnpj = IF SeedsUpTo(j, k) = {} THEN Nul
                       ELSE SeedOf(j, MaxOf(SeedsUpTo(j, k)))

\* [0000, 0140 with a blank field 4, C010, C170]: the 0140 row keeps the
\* header's value, the C010 row and the detail after it take field 2
C28_Witness ==
  /\ pc = "done"
  /\ family = "contrib"
  /\ files[1].lines = <<LnHeader, Ln0140Blank, LnC010, LnDetailC>>
  /\ out.df[1].cnpj = "cnpj1" /\ out.df[2].cnpj = "cnpj1"
  /\ out.df[3].cnpj = "cnpj3" /\ out.df[4].cnpj = "cnpj3"

(***************************************************************************)
(* C29. Whenever a results area (Areas 2 to 5) is opened while             *)
(* processing_done is False the script shows the warning and stops without *)
(* reading a result key, and a view goes on to the results only when       *)
(* processing_done is True, in every order of navigation and processing.   *)
(***************************************************************************)
C29_GuardOnEveryArea ==
  view.area \in 2..5 =>
    /\ ~view.done => (view.outcome = "warning" /\ view.reads = {})
    /\ view.outcome \in {"shown", "KeyError"} => view.done

\* what does hold: no view obtains the value of a result key while
\* processing_done is False
C29_NoValueReadBeforeDone ==
  view.reads # {} => view.done

(***************************************************************************)
(* C30. Whenever processing_done is True, every result key in session      *)
(* state was stored by one and the same run of the handler, a run that     *)
(* reached its end.                                                        *)
(***************************************************************************)
C30_ResultsOfOneCompleteRun ==
  session_state.processing_done =>
    \A k \in ResultKeys : session_state[k] \in {0, session_state.df}

====
